---- MODULE Spec2Model ----
(***************************************************************************)
(* pihole-youtube-block (src/main.go): main enumerates the log directory,  *)
(* launches one processFile goroutine per file of interest, waits on a     *)
(* sync.WaitGroup, then writes the gathered domains and hands them to      *)
(* pihole.  Byte strings are sequences of one-character strings so that    *)
(* strings.HasPrefix, strings.HasSuffix, bufio's ReadLine and the regular  *)
(* expression are computed, not assumed.                                   *)
(***************************************************************************)
EXTENDS Integers, Sequences, FiniteSets, TLC

(* ------------------------------ bounds --------------------------------- *)

\* Largest number of entries in the log directory.
MaxFiles == 2

\* Size of bufio.Reader's buffer (bufio.NewReader uses 4096; scaled down so
\* that a line longer than the buffer fits in the model).
BufSize == 56

\* Largest number of unsupported keys typed at the confirmation prompt.
MaxBadKeys == 1

\* Largest number of words in a line handed to the pattern alone.
MaxWords == 3

(* ------------------------------ strings -------------------------------- *)

Pad(n) == [i \in 1..n |-> "x"]

HasPrefix(s, p) == Len(s) >= Len(p) /\ SubSeq(s, 1, Len(p)) = p

HasSuffix(s, p) == Len(s) >= Len(p) /\ SubSeq(s, Len(s) - Len(p) + 1, Len(s)) = p

Digits == {"0", "1", "2", "3", "4", "5", "6", "7", "8", "9"}

\* The literal pieces of rgx: r([0-9])---sn-(.*?)\.googlevideo\.com
RgxSep == <<"-", "-", "-", "s", "n", "-">>

RgxTail == <<".", "g", "o", "o", "g", "l", "e", "v", "i", "d", "e", "o", ".", "c", "o", "m">>

\* The literal "r", one digit and "---sn-" start at position s of line.
RgxHeadAt(line, s) ==
    /\ s + 7 <= Len(line)
    /\ line[s] = "r"
    /\ line[s + 1] \in Digits
    /\ SubSeq(line, s + 2, s + 7) = RgxSep

\* ".googlevideo.com" starts at position e of line.
RgxTailAt(line, e) ==
    /\ e + Len(RgxTail) - 1 <= Len(line)
    /\ SubSeq(line, e, e + Len(RgxTail) - 1) = RgxTail

\* Positions at which the lazy (.*?) may stop for a match that starts at s.
RgxEnds(line, s) == {e \in (s + 8)..Len(line) : RgxTailAt(line, e)}

\* Start positions, at or after i, of a match.
RgxStarts(line, i) ==
    {s \in i..Len(line) : RgxHeadAt(line, s) /\ RgxEnds(line, s) # {}}

Min(S) == CHOOSE x \in S : \A y \in S : x <= y

\* rgx.FindAll(line, -1) resumed at position i: leftmost start, shortest
\* middle part, then on from the end of the match.
RECURSIVE FindAllFrom(_, _)
FindAllFrom(line, i) ==
    IF RgxStarts(line, i) = {} THEN <<>>
    ELSE LET s == Min(RgxStarts(line, i))
             e == Min(RgxEnds(line, s))
             last == e + Len(RgxTail) - 1
         IN  <<SubSeq(line, s, last)>> \o FindAllFrom(line, last + 1)

FindAll(line) == FindAllFrom(line, 1)

(* ------------------------- the file system ----------------------------- *)

DomA == <<"r", "1">> \o RgxSep \o <<"a">> \o RgxTail
DomB == <<"r", "2">> \o RgxSep \o <<"b">> \o RgxTail
DomC == <<"r", "3">> \o RgxSep \o <<"c">> \o RgxTail

Sp == <<" ">>
NoMatchLine == <<"n", "o">>

\* A line longer than the buffer: a hostname inside the first BufSize bytes
\* and another one after them.
LongLine == Pad(31) \o DomC \o Sp \o Sp \o DomA \o Sp

PiholeLog == <<"p", "i", "h", "o", "l", "e", ".", "l", "o", "g">>
OtherLog == <<"o", "t", "h", "e", "r">>
GzSuffix == <<".", "g", "z">>

DirSlash == <<"/", "l", "/">>
DirNoSlash == <<"/", "l">>

Entry(name, isDir, readable, gzOk, lines, readErr) ==
    [name |-> name, isDir |-> isDir, readable |-> readable, gzOk |-> gzOk,
     lines |-> lines, readErr |-> readErr]

\* The directory entries a run may find, in the order of their names (the
\* order ioutil.ReadDir returns).  lines are the newline-terminated lines of
\* the (decompressed) content; readErr says the stream breaks after them
\* (truncated or corrupt gzip data) instead of ending.
Pool ==
    << Entry(OtherLog \o <<".", "l", "o", "g">>, FALSE, TRUE, TRUE, <<DomC>>, FALSE),
       Entry(PiholeLog \o <<".", "1">>, FALSE, TRUE, TRUE,
             <<DomA, NoMatchLine, DomA>>, FALSE),
       Entry(PiholeLog \o <<".", "2">> \o GzSuffix, FALSE, TRUE, TRUE,
             <<DomA \o Sp \o DomB, DomA>>, FALSE),
       Entry(PiholeLog \o <<".", "3">> \o GzSuffix, FALSE, TRUE, TRUE,
             <<DomB>>, TRUE),
       Entry(PiholeLog \o <<".", "4">> \o GzSuffix, FALSE, TRUE, FALSE,
             <<>>, FALSE),
       Entry(PiholeLog \o <<".", "5">>, FALSE, FALSE, TRUE, <<DomA>>, FALSE),
       Entry(PiholeLog \o <<".", "6">>, FALSE, TRUE, TRUE,
             <<LongLine, DomB>>, FALSE),
       Entry(PiholeLog \o <<".", "d">>, TRUE, TRUE, TRUE, <<>>, FALSE) >>

PoolIds == 1..Len(Pool)

Domain == {DomA, DomB, DomC}

(* ------------------------------- state --------------------------------- *)

TaskIds == 1..MaxFiles

\* Holders of the sync.Mutex other than the processFile goroutines.
Unlocked == 0
Main == 0 - 1

VARIABLES
    dir,                    \* the entries of the log directory (ids of Pool)
    cfgFile,                \* ./config.json: "ok", "missing" or "undecodable"
    dirReadable,            \* whether the log directory can be listed
    mainpc,                 \* where main is
    cfg,                    \* *Config returned by NewConfig
    files,                  \* result of ioutil.ReadDir
    filesOfInterest,        \* names kept by the filter loop
    launched,               \* number of go statements executed
    wg,                     \* counter of the sync.WaitGroup
    m,                      \* DomainMap.m: domain -> number of occurrences
    l,                      \* DomainMap.l: Unlocked, Main or the goroutine holding it
    totalCollectedDomains,  \* len(compiledMap.Domains())
    outFile,                \* the output file: whether created, lines written
    piholeArg,              \* execPihole: whether called, its argument
    fatal,                  \* "none" or the place log.Fatalf was called
    badKeys,                \* unsupported keys read at the prompt
    pc,                     \* where each processFile goroutine is
    f,                      \* processFile's path argument
    openFile,               \* the file a goroutine has open (0: none)
    lineIdx,                \* reader position: lines consumed
    off,                    \* reader position: bytes consumed of the next line
    line,                   \* ReadLine result: line
    lineTooLong,            \* ReadLine result: isPrefix
    err,                    \* ReadLine result: "nil", "EOF" or "other"
    lineNumber,             \* processFile's lineNumber
    matches,                \* matches of the current line not yet inserted
    tmp,                    \* value of dm.m[s] read by dm.m[s]++
    ret,                    \* processFile's result: "none", "nil" or "error"
    inserted,               \* history: domains each goroutine stored into m
    opened                  \* history: number of os.Open calls of each goroutine

mainVars == <<mainpc, cfg, files, filesOfInterest, launched,
              totalCollectedDomains, outFile, piholeArg, fatal, badKeys>>

taskVars == <<pc, f, openFile, lineIdx, off, line, lineTooLong, err,
              lineNumber, matches, tmp, ret, inserted, opened>>

envVars == <<dir, cfgFile, dirReadable>>

vars == <<envVars, mainVars, wg, m, l, taskVars>>

(* --------------------------- configuration ----------------------------- *)

OutName == <<"o", "u", "t">>

\* The values config.json may decode to.
Configs ==
    [LogsDirectory : {DirSlash, DirNoSlash},
     LogFileNamePrefix : {PiholeLog, OtherLog},
     OutputFileName : {OutName},
     PopConfirmationDialogue : BOOLEAN]

NoConfig ==
    [LogsDirectory |-> <<>>, LogFileNamePrefix |-> <<>>,
     OutputFileName |-> <<>>, PopConfirmationDialogue |-> FALSE]

(* ----------------------------- DomainMap ------------------------------- *)

EmptyMap == [d \in {} |-> 0]

\* dm.m[s] of a Go map: the zero value for a missing key.
Get(mp, s) == IF s \in DOMAIN mp THEN mp[s] ELSE 0

Put(mp, s, v) == [d \in (DOMAIN mp) \cup {s} |-> IF d = s THEN v ELSE mp[d]]

\* Number of times d occurs in the sequence q.
RECURSIVE Occurrences(_, _)
Occurrences(q, d) ==
    IF q = <<>> THEN 0
    ELSE (IF Head(q) = d THEN 1 ELSE 0) + Occurrences(Tail(q), d)

\* The orders in which a range over a map with key set S may visit the keys.
RECURSIVE Orders(_)
Orders(S) ==
    IF S = {} THEN {<<>>}
    ELSE UNION {{<<x>> \o o : o \in Orders(S \ {x})} : x \in S}

RECURSIVE Concat(_)
Concat(q) == IF q = <<>> THEN <<>> ELSE Head(q) \o Concat(Tail(q))

(* ------------------------------- Init ---------------------------------- *)

Init ==
    /\ dir \in {S \in SUBSET PoolIds : Cardinality(S) <= MaxFiles}
    /\ cfgFile \in {"ok", "missing", "undecodable"}
    /\ dirReadable \in BOOLEAN
    /\ mainpc = "NewConfig"
    /\ cfg = NoConfig
    /\ files = <<>>
    /\ filesOfInterest = <<>>
    /\ launched = 0
    /\ wg = 0
    /\ m = EmptyMap
    /\ l = Unlocked
    /\ totalCollectedDomains = 0
    /\ outFile = [created |-> FALSE, lines |-> <<>>]
    /\ piholeArg = [called |-> FALSE, s |-> <<>>]
    /\ fatal = "none"
    /\ badKeys = 0
    /\ pc = [t \in TaskIds |-> "idle"]
    /\ f = [t \in TaskIds |-> <<>>]
    /\ openFile = [t \in TaskIds |-> 0]
    /\ lineIdx = [t \in TaskIds |-> 0]
    /\ off = [t \in TaskIds |-> 0]
    /\ line = [t \in TaskIds |-> <<>>]
    /\ lineTooLong = [t \in TaskIds |-> FALSE]
    /\ err = [t \in TaskIds |-> "nil"]
    /\ lineNumber = [t \in TaskIds |-> 0]
    /\ matches = [t \in TaskIds |-> <<>>]
    /\ tmp = [t \in TaskIds |-> 0]
    /\ ret = [t \in TaskIds |-> "none"]
    /\ inserted = [t \in TaskIds |-> <<>>]
    /\ opened = [t \in TaskIds |-> 0]

(* ------------------------------- main ---------------------------------- *)

\* log.Fatalf: the process exits, and every goroutine with it.
Fatalf(where) ==
    /\ mainpc' = "fatal"
    /\ fatal' = where

\* main.go 41-44: NewConfig and the check of its error.
NewConfig ==
    /\ mainpc = "NewConfig"
    /\ IF cfgFile = "ok"
       THEN /\ \E c \in Configs : cfg' = c
            /\ mainpc' = "ReadDir"
            /\ UNCHANGED fatal
       ELSE /\ Fatalf("unable to start")
            /\ UNCHANGED cfg
    /\ UNCHANGED <<envVars, files, filesOfInterest, launched,
                   totalCollectedDomains, outFile, piholeArg, badKeys,
                   wg, m, l, taskVars>>

RECURSIVE SetToSeq(_)
SetToSeq(S) == IF S = {} THEN <<>> ELSE <<Min(S)>> \o SetToSeq(S \ {Min(S)})

\* A variant of ReadDir that goes on with an empty listing when the
\* directory cannot be read.
ReadDir_IgnoreErr ==
    /\ mainpc = "ReadDir"
    /\ files' = IF dirReadable THEN SetToSeq(dir) ELSE <<>>
    /\ mainpc' = "Filter"
    /\ UNCHANGED <<envVars, cfg, filesOfInterest, launched,
                   totalCollectedDomains, outFile, piholeArg, fatal, badKeys,
                   wg, m, l, taskVars>>

\* main.go 47-50: ioutil.ReadDir, entries sorted by name.
ReadDir ==
    /\ mainpc = "ReadDir"
    /\ IF dirReadable
       THEN /\ files' = SetToSeq(dir)
            /\ mainpc' = "Filter"
            /\ UNCHANGED fatal
       ELSE /\ Fatalf("could not read files")
            /\ UNCHANGED files
    /\ UNCHANGED <<envVars, cfg, filesOfInterest, launched,
                   totalCollectedDomains, outFile, piholeArg, badKeys,
                   wg, m, l, taskVars>>

\* main.go 55-60: the switch of the filter loop.
OfInterest(i) == ~Pool[i].isDir /\ HasPrefix(Pool[i].name, PiholeLog)

\* main.go 53-61: the filter loop.
Filter ==
    /\ mainpc = "Filter"
    /\ LET kept == SelectSeq(files, OfInterest)
       IN  filesOfInterest' = [k \in 1..Len(kept) |-> Pool[kept[k]].name]
    /\ mainpc' = "WgAdd"
    /\ UNCHANGED <<envVars, cfg, files, launched, totalCollectedDomains,
                   outFile, piholeArg, fatal, badKeys, wg, m, l, taskVars>>

\* main.go 64-66: NewDomainMap(lock) and wg.Add(len(filesOfInterest)).
WgAdd ==
    /\ mainpc = "WgAdd"
    /\ m' = EmptyMap
    /\ l' = Unlocked
    /\ wg' = Len(filesOfInterest)
    /\ mainpc' = IF Len(filesOfInterest) = 0 THEN "Wait" ELSE "Launch"
    /\ UNCHANGED <<envVars, cfg, files, filesOfInterest, launched,
                   totalCollectedDomains, outFile, piholeArg, fatal, badKeys,
                   taskVars>>

\* A variant of Launch in which the goroutine reads the loop variable when
\* it runs and so gets the last file name.
Launch_Captured ==
    /\ mainpc = "Launch"
    /\ launched < Len(filesOfInterest)
    /\ LET t == launched + 1
       IN  /\ f' = [f EXCEPT ![t] = cfg.LogsDirectory
                                   \o filesOfInterest[Len(filesOfInterest)]]
           /\ pc' = [pc EXCEPT ![t] = "Open"]
           /\ launched' = t
           /\ mainpc' = IF t = Len(filesOfInterest) THEN "Wait" ELSE "Launch"
    /\ UNCHANGED <<envVars, cfg, files, filesOfInterest,
                   totalCollectedDomains, outFile, piholeArg, fatal, badKeys,
                   wg, m, l, openFile, lineIdx, off, line, lineTooLong, err,
                   lineNumber, matches, tmp, ret, inserted, opened>>

\* main.go 69-72: one iteration of the launch loop, go processFile(f, ...).
\* The go statement drops processFile's result.
Launch ==
    /\ mainpc = "Launch"
    /\ launched < Len(filesOfInterest)
    /\ LET t == launched + 1
       IN  /\ f' = [f EXCEPT ![t] = cfg.LogsDirectory \o filesOfInterest[t]]
           /\ pc' = [pc EXCEPT ![t] = "Open"]
           /\ launched' = t
           /\ mainpc' = IF t = Len(filesOfInterest) THEN "Wait" ELSE "Launch"
    /\ UNCHANGED <<envVars, cfg, files, filesOfInterest,
                   totalCollectedDomains, outFile, piholeArg, fatal, badKeys,
                   wg, m, l, openFile, lineIdx, off, line, lineTooLong, err,
                   lineNumber, matches, tmp, ret, inserted, opened>>

\* A variant of WgWait that does not wait for the counter to reach zero.
WgWait_NoBarrier ==
    /\ mainpc = "Wait"
    /\ mainpc' = "DomainsLock1"
    /\ UNCHANGED <<envVars, cfg, files, filesOfInterest, launched,
                   totalCollectedDomains, outFile, piholeArg, fatal, badKeys,
                   wg, m, l, taskVars>>

\* main.go 75: wg.Wait() returns when the counter is zero.
WgWait ==
    /\ mainpc = "Wait"
    /\ wg = 0
    /\ mainpc' = "DomainsLock1"
    /\ UNCHANGED <<envVars, cfg, files, filesOfInterest, launched,
                   totalCollectedDomains, outFile, piholeArg, fatal, badKeys,
                   wg, m, l, taskVars>>

\* main.go 160: dm.l.Lock() in Domains(), called at lines 77 and 91.
DomainsLock ==
    /\ mainpc \in {"DomainsLock1", "DomainsLock2"}
    /\ l = Unlocked
    /\ l' = Main
    /\ mainpc' = IF mainpc = "DomainsLock1" THEN "DomainsUnlock1"
                                            ELSE "DomainsUnlock2"
    /\ UNCHANGED <<envVars, cfg, files, filesOfInterest, launched,
                   totalCollectedDomains, outFile, piholeArg, fatal, badKeys,
                   wg, m, taskVars>>

\* main.go 161-163: Domains() returns dm.m itself, not a copy, and the
\* deferred dm.l.Unlock() runs: the caller gets the map with the lock free.
DomainsUnlock ==
    /\ mainpc \in {"DomainsUnlock1", "DomainsUnlock2"}
    /\ l' = Unlocked
    /\ mainpc' = IF mainpc = "DomainsUnlock1" THEN "DomainsReturn1"
                                              ELSE "DomainsReturn2"
    /\ UNCHANGED <<envVars, cfg, files, filesOfInterest, launched,
                   totalCollectedDomains, outFile, piholeArg, fatal, badKeys,
                   wg, m, taskVars>>

\* main.go 154-156: Len() reads len(dm.m) without taking the lock.
DomainMapLen ==
    /\ mainpc = "Len"
    /\ totalCollectedDomains' = Cardinality(DOMAIN m)
    /\ mainpc' = "LenReturn"
    /\ UNCHANGED <<envVars, cfg, files, filesOfInterest, launched,
                   outFile, piholeArg, fatal, badKeys, wg, m, l, taskVars>>

\* main.go 77: main takes the length of the map Domains() returned.
DomainsReturn1 ==
    /\ mainpc = "DomainsReturn1"
    /\ totalCollectedDomains' = Cardinality(DOMAIN m)
    /\ mainpc' = "Create"
    /\ UNCHANGED <<envVars, cfg, files, filesOfInterest, launched,
                   outFile, piholeArg, fatal, badKeys, wg, m, l, taskVars>>

\* main.go 86-89: os.Create of the output file.
Create ==
    /\ mainpc = "Create"
    /\ \/ /\ outFile' = [created |-> TRUE, lines |-> <<>>]
          /\ mainpc' = "DomainsLock2"
          /\ UNCHANGED fatal
       \/ /\ Fatalf("could not write output to file")
          /\ UNCHANGED outFile
    /\ UNCHANGED <<envVars, cfg, files, filesOfInterest, launched,
                   totalCollectedDomains, piholeArg, badKeys,
                   wg, m, l, taskVars>>

\* main.go 91-99: the loop over the map Domains() returned writes
\* domain + "\n" for every key, in the map's iteration order; a write that
\* fails is skipped.
DomainsReturn2 ==
    /\ mainpc = "DomainsReturn2"
    /\ \E o \in Orders(DOMAIN m), failedWrites \in SUBSET (DOMAIN m) :
          outFile' = [outFile EXCEPT !.lines = SelectSeq(o, LAMBDA d : d \notin failedWrites)]
    /\ mainpc' = IF cfg.PopConfirmationDialogue = FALSE
                 THEN "ToStringLock" ELSE "Prompt"
    /\ UNCHANGED <<envVars, cfg, files, filesOfInterest, launched,
                   totalCollectedDomains, piholeArg, fatal, badKeys,
                   wg, m, l, taskVars>>

\* main.go 120-143: one r.ReadRune() of the confirmation loop.
Prompt ==
    /\ mainpc = "Prompt"
    /\ \/ /\ Fatalf("could not read input")
          /\ UNCHANGED badKeys
       \/ /\ mainpc' = "ToStringLock"
          /\ UNCHANGED <<fatal, badKeys>>
       \/ /\ mainpc' = "exit"
          /\ UNCHANGED <<fatal, badKeys>>
       \/ /\ badKeys < MaxBadKeys
          /\ badKeys' = badKeys + 1
          /\ UNCHANGED <<mainpc, fatal>>
    /\ UNCHANGED <<envVars, cfg, files, filesOfInterest, launched,
                   totalCollectedDomains, outFile, piholeArg,
                   wg, m, l, taskVars>>

\* main.go 168: dm.l.Lock() in DomainsToString().
ToStringLock ==
    /\ mainpc = "ToStringLock"
    /\ l = Unlocked
    /\ l' = Main
    /\ mainpc' = "ToString"
    /\ UNCHANGED <<envVars, cfg, files, filesOfInterest, launched,
                   totalCollectedDomains, outFile, piholeArg, fatal, badKeys,
                   wg, m, taskVars>>

\* A variant of DomainsToString that puts a space between the keys only.
DomainsToString_Join(o) ==
    Concat([k \in 1..Len(o) |-> IF k < Len(o) THEN o[k] \o Sp ELSE o[k]])

\* main.go 170-176: every key followed by a space, in iteration order.
DomainsToString(o) == Concat([k \in 1..Len(o) |-> o[k] \o Sp])

\* A variant of ExecPihole that empties the registry once the string is
\* built.
ExecPihole_Clear ==
    /\ mainpc = "ToString"
    /\ l' = Unlocked
    /\ \E o \in Orders(DOMAIN m) : piholeArg' = [called |-> TRUE, s |-> DomainsToString(o)]
    /\ m' = EmptyMap
    /\ \/ /\ mainpc' = "exit"
          /\ UNCHANGED fatal
       \/ Fatalf("could not send command to pihole")
    /\ UNCHANGED <<envVars, cfg, files, filesOfInterest, launched,
                   totalCollectedDomains, outFile, badKeys, wg, taskVars>>

\* main.go 102/129 with 170-176 and 253-257: DomainsToString() builds the
\* string and unlocks; execPihole runs "pihole -b " + s.
ExecPihole ==
    /\ mainpc = "ToString"
    /\ l' = Unlocked
    /\ \E o \in Orders(DOMAIN m) : piholeArg' = [called |-> TRUE, s |-> DomainsToString(o)]
    /\ \/ /\ mainpc' = "exit"
          /\ UNCHANGED fatal
       \/ Fatalf("could not send command to pihole")
    /\ UNCHANGED <<envVars, cfg, files, filesOfInterest, launched,
                   totalCollectedDomains, outFile, badKeys, wg, m, taskVars>>

MainStep ==
    \/ NewConfig
    \/ ReadDir
    \/ Filter
    \/ WgAdd
    \/ Launch
    \/ WgWait
    \/ DomainsLock
    \/ DomainsUnlock
    \/ DomainsReturn1
    \/ Create
    \/ DomainsReturn2
    \/ Prompt
    \/ ToStringLock
    \/ ExecPihole

(* ---------------------------- processFile ------------------------------ *)

\* The directory entry found at a path (0: no such file).
FileAt(path) ==
    IF \E i \in dir : DirSlash \o Pool[i].name = path
    THEN CHOOSE i \in dir : DirSlash \o Pool[i].name = path
    ELSE 0

\* A variant of Open that treats an unreadable file as fatal: log.Fatalf
\* ends the process and every goroutine with it.
Open_Fatal(t) ==
    /\ pc[t] = "Open"
    /\ opened' = [opened EXCEPT ![t] = opened[t] + 1]
    /\ LET i == FileAt(f[t])
       IN  IF i # 0 /\ Pool[i].readable
           THEN /\ openFile' = [openFile EXCEPT ![t] = i]
                /\ pc' = [pc EXCEPT ![t] = IF HasSuffix(f[t], GzSuffix)
                                           THEN "GzipNewReader" ELSE "ReadLine"]
                /\ UNCHANGED <<ret, mainpc, fatal>>
           ELSE /\ ret' = [ret EXCEPT ![t] = "error"]
                /\ pc' = [u \in TaskIds |-> "killed"]
                /\ Fatalf("skipped unreadable file")
                /\ UNCHANGED openFile
    /\ UNCHANGED <<envVars, cfg, files, filesOfInterest, launched,
                   totalCollectedDomains, outFile, piholeArg, badKeys,
                   wg, m, l, f, lineIdx, off, line, lineTooLong, err,
                   lineNumber, matches, tmp, inserted>>

\* main.go 206-213: os.Open(f) and the test of the ".gz" suffix.
Open(t) ==
    /\ pc[t] = "Open"
    /\ opened' = [opened EXCEPT ![t] = opened[t] + 1]
    /\ LET i == FileAt(f[t])
       IN  IF i # 0 /\ Pool[i].readable
           THEN /\ openFile' = [openFile EXCEPT ![t] = i]
                /\ pc' = [pc EXCEPT ![t] = IF HasSuffix(f[t], GzSuffix)
                                           THEN "GzipNewReader" ELSE "ReadLine"]
                /\ UNCHANGED ret
           ELSE /\ ret' = [ret EXCEPT ![t] = "error"]
                /\ pc' = [pc EXCEPT ![t] = "WgDone"]
                /\ UNCHANGED openFile
    /\ UNCHANGED <<envVars, mainVars, wg, m, l, f, lineIdx, off, line,
                   lineTooLong, err, lineNumber, matches, tmp, inserted>>

\* A variant of GzipNewReader for a processFile that calls wg.Done() at its
\* end instead of deferring it: the return on a bad gzip header skips it.
GzipNewReader_NoDone(t) ==
    /\ pc[t] = "GzipNewReader"
    /\ IF Pool[openFile[t]].gzOk
       THEN /\ pc' = [pc EXCEPT ![t] = "ReadLine"]
            /\ UNCHANGED <<ret, openFile>>
       ELSE /\ ret' = [ret EXCEPT ![t] = "error"]
            /\ openFile' = [openFile EXCEPT ![t] = 0]
            /\ pc' = [pc EXCEPT ![t] = "returned"]
    /\ UNCHANGED <<envVars, mainVars, wg, m, l, f, lineIdx, off,
                   line, lineTooLong, err, lineNumber, matches, tmp, inserted,
                   opened>>

\* main.go 214-219: gzip.NewReader reads the gzip header.
GzipNewReader(t) ==
    /\ pc[t] = "GzipNewReader"
    /\ IF Pool[openFile[t]].gzOk
       THEN /\ pc' = [pc EXCEPT ![t] = "ReadLine"]
            /\ UNCHANGED ret
       ELSE /\ ret' = [ret EXCEPT ![t] = "error"]
            /\ pc' = [pc EXCEPT ![t] = "WgDone"]
    /\ UNCHANGED <<envVars, mainVars, wg, m, l, f, openFile, lineIdx, off,
                   line, lineTooLong, err, lineNumber, matches, tmp, inserted, opened>>

\* main.go 228: r.ReadLine().  A line that does not fit the buffer comes
\* back BufSize bytes at a time with isPrefix set, its last piece without;
\* a broken stream gives the same error on every call.
ReadLine(t) ==
    /\ pc[t] = "ReadLine"
    /\ LET e == Pool[openFile[t]]
       IN  IF lineIdx[t] >= Len(e.lines)
           THEN /\ err' = [err EXCEPT ![t] = IF e.readErr THEN "other" ELSE "EOF"]
                /\ line' = [line EXCEPT ![t] = <<>>]
                /\ lineTooLong' = [lineTooLong EXCEPT ![t] = FALSE]
                /\ UNCHANGED <<lineIdx, off>>
           ELSE LET whole == e.lines[lineIdx[t] + 1]
                    rest == SubSeq(whole, off[t] + 1, Len(whole))
                IN  /\ err' = [err EXCEPT ![t] = "nil"]
                    /\ IF Len(rest) >= BufSize
                       THEN /\ line' = [line EXCEPT ![t] = SubSeq(rest, 1, BufSize)]
                            /\ lineTooLong' = [lineTooLong EXCEPT ![t] = TRUE]
                            /\ off' = [off EXCEPT ![t] = off[t] + BufSize]
                            /\ UNCHANGED lineIdx
                       ELSE /\ line' = [line EXCEPT ![t] = rest]
                            /\ lineTooLong' = [lineTooLong EXCEPT ![t] = FALSE]
                            /\ off' = [off EXCEPT ![t] = 0]
                            /\ lineIdx' = [lineIdx EXCEPT ![t] = lineIdx[t] + 1]
    /\ pc' = [pc EXCEPT ![t] = "Switch"]
    /\ UNCHANGED <<envVars, mainVars, wg, m, l, f, openFile, lineNumber,
                   matches, tmp, ret, inserted, opened>>

\* main.go 229-240: the switch on ReadLine's result and rgx.FindAll.
Switch(t) ==
    /\ pc[t] = "Switch"
    /\ IF err[t] = "EOF"
       THEN /\ pc' = [pc EXCEPT ![t] = "WgDone"]
            /\ ret' = [ret EXCEPT ![t] = "nil"]
            /\ UNCHANGED <<matches, lineNumber>>
       ELSE IF err[t] # "nil"
       THEN /\ pc' = [pc EXCEPT ![t] = "ReadLine"]
            /\ UNCHANGED <<ret, matches, lineNumber>>
       ELSE IF lineTooLong[t]
       THEN /\ pc' = [pc EXCEPT ![t] = "ReadLine"]
            /\ UNCHANGED <<ret, matches, lineNumber>>
       ELSE /\ matches' = [matches EXCEPT ![t] = FindAll(line[t])]
            /\ IF FindAll(line[t]) = <<>>
               THEN /\ lineNumber' = [lineNumber EXCEPT ![t] = lineNumber[t] + 1]
                    /\ pc' = [pc EXCEPT ![t] = "ReadLine"]
               ELSE /\ pc' = [pc EXCEPT ![t] = "InsertLock"]
                    /\ UNCHANGED lineNumber
            /\ UNCHANGED ret
    /\ UNCHANGED <<envVars, mainVars, wg, m, l, f, openFile, lineIdx, off,
                   line, lineTooLong, err, tmp, inserted, opened>>

\* A variant of InsertLock without mutual exclusion: the lock is taken
\* whoever holds it.
InsertLock_NoMutex(t) ==
    /\ pc[t] = "InsertLock"
    /\ l' = t
    /\ pc' = [pc EXCEPT ![t] = "InsertLoad"]
    /\ UNCHANGED <<envVars, mainVars, wg, m, f, openFile, lineIdx, off, line,
                   lineTooLong, err, lineNumber, matches, tmp, ret, inserted, opened>>

\* A variant of InsertLock that unlocks right after locking, before the
\* increment.
InsertLock_EarlyUnlock(t) ==
    /\ pc[t] = "InsertLock"
    /\ l = Unlocked
    /\ l' = Unlocked
    /\ pc' = [pc EXCEPT ![t] = "InsertLoad"]
    /\ UNCHANGED <<envVars, mainVars, wg, m, f, openFile, lineIdx, off, line,
                   lineTooLong, err, lineNumber, matches, tmp, ret, inserted, opened>>

\* main.go 148: dm.l.Lock() in Insert, called at line 242.
InsertLock(t) ==
    /\ pc[t] = "InsertLock"
    /\ l = Unlocked
    /\ l' = t
    /\ pc' = [pc EXCEPT ![t] = "InsertLoad"]
    /\ UNCHANGED <<envVars, mainVars, wg, m, f, openFile, lineIdx, off, line,
                   lineTooLong, err, lineNumber, matches, tmp, ret, inserted, opened>>

\* A variant of InsertLoad in which the lock covers the read only: it is
\* released before the store.
InsertLoad_ReleasesLock(t) ==
    /\ pc[t] = "InsertLoad"
    /\ tmp' = [tmp EXCEPT ![t] = Get(m, Head(matches[t]))]
    /\ l' = Unlocked
    /\ pc' = [pc EXCEPT ![t] = "InsertStore"]
    /\ UNCHANGED <<envVars, mainVars, wg, m, f, openFile, lineIdx, off,
                   line, lineTooLong, err, lineNumber, matches, ret, inserted,
                   opened>>

\* main.go 149: dm.m[s]++ reads the count of s ...
InsertLoad(t) ==
    /\ pc[t] = "InsertLoad"
    /\ tmp' = [tmp EXCEPT ![t] = Get(m, Head(matches[t]))]
    /\ pc' = [pc EXCEPT ![t] = "InsertStore"]
    /\ UNCHANGED <<envVars, mainVars, wg, m, l, f, openFile, lineIdx, off,
                   line, lineTooLong, err, lineNumber, matches, ret, inserted, opened>>

\* A variant of InsertStore that sets the count to one instead of adding
\* one to it.
InsertStore_SetOne(t) ==
    /\ pc[t] = "InsertStore"
    /\ m' = Put(m, Head(matches[t]), 1)
    /\ inserted' = [inserted EXCEPT ![t] = Append(inserted[t], Head(matches[t]))]
    /\ pc' = [pc EXCEPT ![t] = "InsertUnlock"]
    /\ UNCHANGED <<envVars, mainVars, wg, l, f, openFile, lineIdx, off, line,
                   lineTooLong, err, lineNumber, matches, tmp, ret,
                   opened>>

\* main.go 149: ... and stores the count plus one.
InsertStore(t) ==
    /\ pc[t] = "InsertStore"
    /\ m' = Put(m, Head(matches[t]), tmp[t] + 1)
    /\ inserted' = [inserted EXCEPT ![t] = Append(inserted[t], Head(matches[t]))]
    /\ pc' = [pc EXCEPT ![t] = "InsertUnlock"]
    /\ UNCHANGED <<envVars, mainVars, wg, l, f, openFile, lineIdx, off, line,
                   lineTooLong, err, lineNumber, matches, tmp, ret,
                   opened>>

\* A variant of InsertUnlock for an Insert that returns without unlocking.
InsertUnlock_Forgotten(t) ==
    /\ pc[t] = "InsertUnlock"
    /\ matches' = [matches EXCEPT ![t] = Tail(matches[t])]
    /\ IF Tail(matches[t]) = <<>>
       THEN /\ lineNumber' = [lineNumber EXCEPT ![t] = lineNumber[t] + 1]
            /\ pc' = [pc EXCEPT ![t] = "ReadLine"]
       ELSE /\ pc' = [pc EXCEPT ![t] = "InsertLock"]
            /\ UNCHANGED lineNumber
    /\ UNCHANGED <<envVars, mainVars, wg, m, l, f, openFile, lineIdx, off, line,
                   lineTooLong, err, tmp, ret, inserted, opened>>

\* main.go 150 and 240-245: dm.l.Unlock(), then the next match of the line
\* or, after the last one, lineNumber++ and the next line.
InsertUnlock(t) ==
    /\ pc[t] = "InsertUnlock"
    /\ l' = Unlocked
    /\ matches' = [matches EXCEPT ![t] = Tail(matches[t])]
    /\ IF Tail(matches[t]) = <<>>
       THEN /\ lineNumber' = [lineNumber EXCEPT ![t] = lineNumber[t] + 1]
            /\ pc' = [pc EXCEPT ![t] = "ReadLine"]
       ELSE /\ pc' = [pc EXCEPT ![t] = "InsertLock"]
            /\ UNCHANGED lineNumber
    /\ UNCHANGED <<envVars, mainVars, wg, m, f, openFile, lineIdx, off, line,
                   lineTooLong, err, tmp, ret, inserted, opened>>

\* main.go 204, 210, 218: the deferred rr.Close(), openFile.Close() and
\* wg.Done() when processFile returns.
WgDone(t) ==
    /\ pc[t] = "WgDone"
    /\ openFile' = [openFile EXCEPT ![t] = 0]
    /\ wg' = wg - 1
    /\ pc' = [pc EXCEPT ![t] = "returned"]
    /\ UNCHANGED <<envVars, mainVars, m, l, f, lineIdx, off, line,
                   lineTooLong, err, lineNumber, matches, tmp, ret, inserted, opened>>

TaskStep(t) ==
    \/ Open(t)
    \/ GzipNewReader(t)
    \/ ReadLine(t)
    \/ Switch(t)
    \/ InsertLock(t)
    \/ InsertLoad(t)
    \/ InsertStore(t)
    \/ InsertUnlock(t)
    \/ WgDone(t)

(* --------------------------- specifications ---------------------------- *)

Next ==
    \/ MainStep
    \/ \E t \in TaskIds : TaskStep(t)

Spec == Init /\ [][Next]_vars

\* The Go scheduler lets main and every goroutine that can run take steps.
FairSpec ==
    /\ Spec
    /\ WF_vars(MainStep)
    /\ \A t \in TaskIds : WF_vars(TaskStep(t))

(* ------------- the DomainMap used by concurrent callers ----------------- *)

\* The Insert calls a goroutine of ApiSpec still has to make.
ApiCalls == {<<DomA>>, <<DomA, DomA>>, <<DomB, DomA>>}

\* A DomainMap shared by goroutines that are calling Insert and by a
\* caller that calls Domains() (as main does at line 77) or Len() while
\* they do.
ApiInit ==
    /\ dir = {}
    /\ cfgFile = "ok"
    /\ dirReadable = TRUE
    /\ mainpc \in {"DomainsLock1", "Len"}
    /\ cfg = NoConfig
    /\ files = <<>>
    /\ filesOfInterest = <<>>
    /\ launched = MaxFiles
    /\ wg = MaxFiles
    /\ m = EmptyMap
    /\ l = Unlocked
    /\ totalCollectedDomains = 0
    /\ outFile = [created |-> FALSE, lines |-> <<>>]
    /\ piholeArg = [called |-> FALSE, s |-> <<>>]
    /\ fatal = "none"
    /\ badKeys = 0
    /\ pc = [t \in TaskIds |-> "InsertLock"]
    /\ f = [t \in TaskIds |-> <<>>]
    /\ openFile = [t \in TaskIds |-> 0]
    /\ lineIdx = [t \in TaskIds |-> 0]
    /\ off = [t \in TaskIds |-> 0]
    /\ line = [t \in TaskIds |-> <<>>]
    /\ lineTooLong = [t \in TaskIds |-> FALSE]
    /\ err = [t \in TaskIds |-> "nil"]
    /\ lineNumber = [t \in TaskIds |-> 0]
    /\ matches \in [TaskIds -> ApiCalls]
    /\ tmp = [t \in TaskIds |-> 0]
    /\ ret = [t \in TaskIds |-> "none"]
    /\ inserted = [t \in TaskIds |-> <<>>]
    /\ opened = [t \in TaskIds |-> 0]

ApiNext ==
    \/ DomainsLock
    \/ DomainsUnlock
    \/ DomainsReturn1
    \/ DomainMapLen
    \/ \E t \in TaskIds :
          \/ InsertLock(t)
          \/ InsertLoad(t)
          \/ InsertStore(t)
          \/ InsertUnlock(t)

ApiSpec == ApiInit /\ [][ApiNext]_vars

(* -------------------- the pattern applied to one line ------------------- *)

\* Pieces of text a log line is made of: hostnames the pattern is meant
\* for (one digit, two digits), broken ones (no digit, no tail, no head)
\* and filler.
TestWords ==
    { DomA, DomB,
      <<"r", "1", "2">> \o RgxSep \o <<"a">> \o RgxTail,
      <<"r">> \o RgxSep \o <<"a">> \o RgxTail,
      <<"r", "1">> \o RgxSep,
      RgxTail,
      Sp,
      <<"b", "a">> }

RECURSIVE LinesOf(_)
LinesOf(n) ==
    IF n = 0 THEN {<<>>}
    ELSE LinesOf(n - 1) \cup {w \o x : w \in TestWords, x \in LinesOf(n - 1)}

TestLines == LinesOf(MaxWords)

\* A goroutine that has just read a line that fits the buffer.
RegexInit ==
    /\ dir = {}
    /\ cfgFile = "ok"
    /\ dirReadable = TRUE
    /\ mainpc = "Wait"
    /\ cfg = NoConfig
    /\ files = <<>>
    /\ filesOfInterest = <<>>
    /\ launched = 1
    /\ wg = 1
    /\ m = EmptyMap
    /\ l = Unlocked
    /\ totalCollectedDomains = 0
    /\ outFile = [created |-> FALSE, lines |-> <<>>]
    /\ piholeArg = [called |-> FALSE, s |-> <<>>]
    /\ fatal = "none"
    /\ badKeys = 0
    /\ pc = [t \in TaskIds |-> IF t = 1 THEN "Switch" ELSE "idle"]
    /\ f = [t \in TaskIds |-> <<>>]
    /\ openFile = [t \in TaskIds |-> 0]
    /\ lineIdx = [t \in TaskIds |-> 0]
    /\ off = [t \in TaskIds |-> 0]
    /\ \E x \in TestLines : line = [t \in TaskIds |-> IF t = 1 THEN x ELSE <<>>]
    /\ lineTooLong = [t \in TaskIds |-> FALSE]
    /\ err = [t \in TaskIds |-> "nil"]
    /\ lineNumber = [t \in TaskIds |-> 0]
    /\ matches = [t \in TaskIds |-> <<>>]
    /\ tmp = [t \in TaskIds |-> 0]
    /\ ret = [t \in TaskIds |-> "none"]
    /\ inserted = [t \in TaskIds |-> <<>>]
    /\ opened = [t \in TaskIds |-> 1]

RegexNext == \E t \in TaskIds : Switch(t)

RegexSpec == RegexInit /\ [][RegexNext]_vars

(* ------------------------- derived notions ----------------------------- *)

\* main is past wg.Wait(): the registry is treated as final.
Aggregated ==
    \/ mainpc \in {"DomainsLock1", "DomainsUnlock1", "DomainsReturn1", "Create",
                   "DomainsLock2", "DomainsUnlock2", "DomainsReturn2", "Prompt", "ToStringLock", "ToString",
                   "exit"}
    \/ /\ mainpc = "fatal"
       /\ fatal \in {"could not write output to file", "could not read input",
                     "could not send command to pihole"}

\* The processFile goroutines that were launched and have not returned.
ActiveTasks == {t \in TaskIds : pc[t] \notin {"idle", "returned"}}

\* The goroutines main has launched.
Launched == 1..launched

\* Number of times goroutine t stored an increment of d.
InsertedBy(t, d) == Occurrences(inserted[t], d)

RECURSIVE SumInserted(_, _)
SumInserted(T, d) ==
    IF T = {} THEN 0
    ELSE LET t == CHOOSE x \in T : TRUE
         IN  InsertedBy(t, d) + SumInserted(T \ {t}, d)

\* The pieces r.ReadLine() cuts a line into.
RECURSIVE Pieces(_)
Pieces(rest) ==
    IF Len(rest) >= BufSize
    THEN <<[line |-> SubSeq(rest, 1, BufSize), lineTooLong |-> TRUE]>>
         \o Pieces(SubSeq(rest, BufSize + 1, Len(rest)))
    ELSE <<[line |-> rest, lineTooLong |-> FALSE]>>

\* The Insert calls of the line loop run alone on the given lines.
RECURSIVE LoopInserts(_)
LoopInserts(lines) ==
    IF lines = <<>> THEN <<>>
    ELSE LET ps == Pieces(Head(lines))
             kept == SelectSeq(ps, LAMBDA p : ~p.lineTooLong)
         IN  Concat([k \in 1..Len(kept) |-> FindAll(kept[k].line)])
             \o LoopInserts(Tail(lines))

\* The Insert calls of processFile(path) run alone.
SerialInserts(path) ==
    LET i == FileAt(path)
    IN  IF i = 0 \/ ~Pool[i].readable THEN <<>>
        ELSE IF HasSuffix(path, GzSuffix) /\ ~Pool[i].gzOk THEN <<>>
        ELSE LoopInserts(Pool[i].lines)

\* The registry after running processFile on the files of interest one
\* after the other.
RECURSIVE SerialRegistryFrom(_, _)
SerialRegistryFrom(k, mp) ==
    IF k > Len(filesOfInterest) THEN mp
    ELSE LET ins == SerialInserts(cfg.LogsDirectory \o filesOfInterest[k])
             keys == (DOMAIN mp) \cup {ins[j] : j \in 1..Len(ins)}
         IN  SerialRegistryFrom(k + 1,
                 [d \in keys |-> Get(mp, d) + Occurrences(ins, d)])

SerialRegistry == SerialRegistryFrom(1, EmptyMap)

\* The per-file failures main keeps for its caller: the go statement drops
\* processFile's result and main has no other record of a failed file.
FileFailures == {}

(* ------------------------------ claims --------------------------------- *)

\* C1: whenever main is past wg.Wait(), no launched processFile goroutine
\* is still active, every file of interest has been launched and the
\* counter is zero; from then on no step changes the registry and main
\* stays past the barrier.
C1_BarrierBeforeFinal ==
    /\ [](Aggregated =>
            /\ ActiveTasks = {}
            /\ launched = Len(filesOfInterest)
            /\ wg = 0)
    /\ [][Aggregated => (m' = m /\ Aggregated')]_vars

C1_Witness ==
    /\ mainpc = "DomainsLock1"
    /\ launched = 2
    /\ \A t \in Launched : pc[t] = "returned" /\ inserted[t] # <<>>

\* C2: when all N launched goroutines have returned and each of them has
\* inserted a domain the same number M of times, the count of that domain
\* is N * M.
C2_NoLostUpdates ==
    (launched = Len(filesOfInterest) /\ launched >= 1 /\ ActiveTasks = {}) =>
        \A d \in Domain :
            (\A t \in Launched : InsertedBy(t, d) = InsertedBy(1, d)) =>
                Get(m, d) = launched * InsertedBy(1, d)

C2_Witness ==
    /\ mainpc = "Wait"
    /\ ActiveTasks = {}
    /\ launched = 2
    /\ \A t \in Launched : InsertedBy(t, DomA) = 2
    /\ Get(m, DomA) = 4

\* C3: once main is past wg.Wait() the registry is the one that processing
\* the files of interest one after the other gives, whatever the
\* interleaving of the goroutines was.
C3_OrderIndependent == Aggregated => m = SerialRegistry

C3_Witness ==
    /\ mainpc = "exit"
    /\ launched = 2
    /\ Cardinality(DOMAIN m) = 2
    /\ \A t \in Launched : inserted[t] # <<>>

\* C4: a goroutine whose ReadLine returned an error other than io.EOF
\* eventually returns (and so lets wg.Wait() return).
C4_ReadErrorEndsTask ==
    \A t \in TaskIds :
        (pc[t] = "Switch" /\ err[t] = "other") ~> (pc[t] = "returned")

\* C5: pattern extraction is only run on lines that fit the buffer, and a
\* goroutine that reached the end of its file has inserted exactly the
\* matches of the lines that fit the buffer, in file order.
C5_LongLineSkippedInFull ==
    \A t \in TaskIds :
        /\ pc[t] \in {"InsertLock", "InsertLoad", "InsertStore", "InsertUnlock"} =>
              Len(Pool[openFile[t]].lines[lineIdx[t]]) < BufSize
        /\ (pc[t] = "returned" /\ ret[t] = "nil") =>
              LET ls == Pool[FileAt(f[t])].lines
                  short == SelectSeq(ls, LAMBDA x : Len(x) < BufSize)
              IN  inserted[t] = Concat([k \in 1..Len(short) |-> FindAll(short[k])])

\* C6: after the scan, a file whose goroutine failed is in the failures
\* main keeps, and a file read to its end is not.
C6_FailuresRecorded ==
    Aggregated =>
        \A t \in Launched :
            /\ ret[t] = "error" => f[t] \in FileFailures
            /\ ret[t] = "nil" => f[t] \notin FileFailures

\* C7: the count of every domain is the sum over the goroutines of what
\* each has inserted, and a step in which a goroutine fails (os.Open or
\* gzip.NewReader fails, ReadLine returns an error) changes neither the
\* registry nor anything of another goroutine nor main.
C7_FailureIsolation ==
    /\ [](\A d \in Domain : Get(m, d) = SumInserted(TaskIds, d))
    /\ [][\A t \in TaskIds :
            ((ret[t] # "error" /\ ret'[t] = "error")
               \/ (err[t] # "other" /\ err'[t] = "other")) =>
                /\ m' = m
                /\ mainpc' = mainpc
                /\ \A u \in TaskIds \ {t} :
                      /\ pc'[u] = pc[u]
                      /\ inserted'[u] = inserted[u]
                      /\ lineIdx'[u] = lineIdx[u]
                      /\ matches'[u] = matches[u]]_vars

C7_Witness ==
    /\ Aggregated
    /\ \E t, u \in Launched :
          /\ ret[t] = "error"
          /\ ret[u] = "nil"
          /\ inserted[u] # <<>>
          /\ \A d \in Domain : Get(m, d) = InsertedBy(u, d)

\* C8: the files of interest are the entries that are not directories and
\* whose name begins with cfg.LogFileNamePrefix, and no other file is opened.
C8_ConfiguredPrefix ==
    /\ mainpc \in {"WgAdd", "Launch", "Wait"} =>
          {filesOfInterest[k] : k \in 1..Len(filesOfInterest)} =
          {Pool[i].name : i \in {j \in dir : /\ ~Pool[j].isDir
                                            /\ HasPrefix(Pool[j].name, cfg.LogFileNamePrefix)}}
    /\ \A t \in TaskIds :
          openFile[t] # 0 => HasPrefix(Pool[openFile[t]].name, cfg.LogFileNamePrefix)

\* C9: in a run whose config file is missing or undecodable or whose log
\* directory cannot be read, main never gets past NewConfig / ReadDir: no
\* goroutine is launched, the registry stays empty, no output file is
\* created and pihole is not called.
C9_ConfigErrorAborts ==
    (cfgFile # "ok" \/ ~dirReadable) =>
        /\ mainpc \in {"NewConfig", "ReadDir", "fatal"}
        /\ launched = 0
        /\ \A t \in TaskIds : pc[t] = "idle"
        /\ m = EmptyMap
        /\ ~outFile.created
        /\ ~piholeArg.called

C9_Witness ==
    /\ mainpc = "fatal"
    /\ fatal = "could not read files"
    /\ cfgFile = "ok"
    /\ ~dirReadable
    /\ dir # {}

\* Number of matches of d in the lines of a file that fit the buffer.
RECURSIVE MatchesIn(_, _)
MatchesIn(lines, d) ==
    IF lines = <<>> THEN 0
    ELSE (IF Len(Head(lines)) < BufSize
          THEN Occurrences(FindAll(Head(lines)), d) ELSE 0)
         + MatchesIn(Tail(lines), d)

RECURSIVE TotalMatches(_, _)
TotalMatches(k, d) ==
    IF k > Len(filesOfInterest) THEN 0
    ELSE MatchesIn(Pool[FileAt(cfg.LogsDirectory \o filesOfInterest[k])].lines, d)
         + TotalMatches(k + 1, d)

\* Every file of interest can be opened, decompressed and read to its end.
AllReadable ==
    \A k \in 1..Len(filesOfInterest) :
        LET i == FileAt(cfg.LogsDirectory \o filesOfInterest[k])
        IN  i # 0 /\ Pool[i].readable /\ Pool[i].gzOk /\ ~Pool[i].readErr

\* C10: when every file of interest is readable, after the scan the count
\* of each domain is the number of its matches over the lines of the files
\* of interest, and the number of domains reported is the number of
\* distinct matched strings.
C10_CountsAreMatches ==
    (Aggregated /\ AllReadable) =>
        /\ \A d \in Domain : Get(m, d) = TotalMatches(1, d)
        /\ (mainpc = "Create" =>
              totalCollectedDomains =
                  Cardinality({d \in Domain : TotalMatches(1, d) > 0}))

\* C11: the step of Insert(s) that changes the map makes the count of s one
\* more than it was when the step was taken (1 for a key that was absent),
\* adds no other key and changes no other count; no other step of a
\* goroutine changes the map.
C11_InsertAddsOne ==
    [][\A t \in TaskIds :
          IF pc[t] = "InsertStore" /\ pc'[t] = "InsertUnlock"
          THEN LET s == Head(matches[t])
               IN  /\ DOMAIN m' = (DOMAIN m) \cup {s}
                   /\ m'[s] = (IF s \in DOMAIN m THEN m[s] ELSE 0) + 1
                   /\ \A d \in (DOMAIN m) \ {s} : m'[d] = m[d]
          ELSE pc'[t] # pc[t] => m' = m]_vars

\* A goroutine has just created a key and another one has just raised it.
C11_Witness ==
    \E t, u \in TaskIds :
        /\ t # u
        /\ pc[t] = "InsertUnlock"
        /\ Head(matches[t]) = DomA
        /\ m[DomA] = 2
        /\ inserted[t] = <<DomA>>
        /\ inserted[u] = <<DomA>>

\* The caller is reading the map it got from Domains(), or is in Len().
ReadingMap == mainpc \in {"DomainsReturn1", "DomainsReturn2", "Len"}

\* C12: the caller of Domains() or Len() never reads the map while a
\* goroutine is inside dm.m[s]++ with its store still to come.
C12_NoReadDuringInsert ==
    ~(ReadingMap /\ \E t \in TaskIds : pc[t] = "InsertStore")

\* s is made of every key of K once, each followed by one space.
RECURSIVE KeysEachThenSpace(_, _)
KeysEachThenSpace(s, K) ==
    IF K = {} THEN s = <<>>
    ELSE \E d \in K :
            /\ HasPrefix(s, d \o Sp)
            /\ KeysEachThenSpace(SubSeq(s, Len(d) + 2, Len(s)), K \ {d})

\* s is made of every key of K once, with one space between two keys and
\* nothing else.
RECURSIVE KeysJoinedBySpaces(_, _)
KeysJoinedBySpaces(s, K) ==
    IF K = {} THEN s = <<>>
    ELSE \E d \in K :
            IF K = {d} THEN s = d
            ELSE /\ HasPrefix(s, d \o Sp)
                 /\ KeysJoinedBySpaces(SubSeq(s, Len(d) + 2, Len(s)), K \ {d})

\* C13 as stated: the string handed to pihole holds every key of the
\* registry once, the keys separated by single spaces and nothing else
\* (the empty string for an empty registry).
C13_KeysSeparatedBySpaces ==
    piholeArg.called => KeysJoinedBySpaces(piholeArg.s, DOMAIN m)

\* C13 as amended: the string handed to pihole holds every key of the
\* registry once, each key followed by one space, so that a string with
\* keys ends with a space; it is the empty string for an empty registry.
C13_KeysEachFollowedBySpace ==
    piholeArg.called => KeysEachThenSpace(piholeArg.s, DOMAIN m)

C13_Witness ==
    /\ piholeArg.called
    /\ DOMAIN m = {DomA, DomB}
    /\ Len(piholeArg.s) = Len(DomA) + Len(DomB) + 2

\* The paths of the files of interest.
SelectedPaths ==
    {cfg.LogsDirectory \o filesOfInterest[k] : k \in 1..Len(filesOfInterest)}

\* Number of os.Open calls made on a path.
RECURSIVE OpensOf(_, _)
OpensOf(T, path) ==
    IF T = {} THEN 0
    ELSE LET t == CHOOSE x \in T : TRUE
         IN  (IF f[t] = path THEN opened[t] ELSE 0) + OpensOf(T \ {t}, path)

\* C14: no two launched goroutines have the same file, every launched
\* goroutine has a file of interest, once the launch loop is over every
\* file of interest has its goroutine, and no path is opened more than
\* once: once exactly when the scan is over, also for a file that failed.
C14_OneTaskPerFile ==
    /\ \A t, u \in Launched : t # u => f[t] # f[u]
    /\ \A t \in Launched : f[t] \in SelectedPaths
    /\ \A t \in TaskIds \ Launched : pc[t] = "idle" /\ opened[t] = 0
    /\ (mainpc = "Wait" \/ Aggregated) =>
          /\ launched = Len(filesOfInterest)
          /\ {f[t] : t \in Launched} = SelectedPaths
    /\ \A p \in SelectedPaths : OpensOf(TaskIds, p) <= 1
    /\ Aggregated => \A p \in SelectedPaths : OpensOf(TaskIds, p) = 1

C14_Witness ==
    /\ Aggregated
    /\ launched = 2
    /\ \E t \in Launched : ret[t] = "error"
    /\ \A p \in SelectedPaths : OpensOf(TaskIds, p) = 1

\* C15: every count stored in the registry is at least 1; no step removes
\* a key or lowers a count; and once main is past wg.Wait() no step
\* changes the registry.
C15_RegistryMonotone ==
    /\ [](\A d \in DOMAIN m : m[d] >= 1)
    /\ [][/\ (DOMAIN m) \subseteq (DOMAIN m')
          /\ \A d \in DOMAIN m : m'[d] >= m[d]
          /\ Aggregated => m' = m]_vars

C15_Witness ==
    /\ mainpc = "exit"
    /\ piholeArg.called
    /\ DomA \in DOMAIN m
    /\ m[DomA] = 3
    /\ DomB \in DOMAIN m

\* Goroutine t is between dm.l.Lock() and dm.l.Unlock() of Insert.
InCritical(t) == pc[t] \in {"InsertLoad", "InsertStore", "InsertUnlock"}

\* main is between Lock and Unlock of Domains() or DomainsToString().
MainInCritical == mainpc \in {"DomainsUnlock1", "DomainsUnlock2", "ToString"}

\* C16: at most one of main and the goroutines is inside a critical
\* section, and it is the holder of the lock; a goroutine that holds the
\* lock is not at os.Open, gzip.NewReader or ReadLine; and every step that
\* changes the map is the store of a goroutine that holds the lock.
C16_MutualExclusion ==
    /\ [](/\ Cardinality({t \in TaskIds : InCritical(t)})
               + (IF MainInCritical THEN 1 ELSE 0) <= 1
          /\ \A t \in TaskIds : InCritical(t) <=> l = t
          /\ MainInCritical <=> l = Main
          /\ \A t \in TaskIds :
                l = t => pc[t] \notin {"Open", "GzipNewReader", "ReadLine", "Switch"})
    /\ [][m' # m => \E t \in TaskIds :
                        /\ l = t
                        /\ pc[t] = "InsertStore"
                        /\ pc'[t] = "InsertUnlock"]_vars

C16_Witness ==
    \E t, u \in TaskIds :
        /\ l = t
        /\ pc[t] = "InsertStore"
        /\ pc[u] = "InsertLock"
        /\ inserted[u] # <<>>

\* Number of digits in a row from position i of line.
RECURSIVE DigitRun(_, _)
DigitRun(ln, i) ==
    IF i <= Len(ln) /\ ln[i] \in Digits THEN 1 + DigitRun(ln, i + 1) ELSE 0

\* Where the content of a hostname that starts at s begins: after "r", one
\* or more digits and the separator (0: no hostname starts at s).
ContentStart(ln, s) ==
    LET n == DigitRun(ln, s + 1)
    IN  IF /\ ln[s] = "r"
           /\ n >= 1
           /\ s + n + Len(RgxSep) <= Len(ln)
           /\ SubSeq(ln, s + n + 1, s + n + Len(RgxSep)) = RgxSep
        THEN s + n + Len(RgxSep) + 1
        ELSE 0

HostnameEnds(ln, s) ==
    {e \in ContentStart(ln, s)..Len(ln) : ContentStart(ln, s) # 0 /\ RgxTailAt(ln, e)}

HostnameStarts(ln, i) == {s \in i..Len(ln) : HostnameEnds(ln, s) # {}}

\* The non-overlapping occurrences, left to right, of "r" + one or more
\* digits + "---sn-" + content + ".googlevideo.com" in a line.
RECURSIVE HostnamesFrom(_, _)
HostnamesFrom(ln, i) ==
    IF HostnameStarts(ln, i) = {} THEN <<>>
    ELSE LET s == Min(HostnameStarts(ln, i))
             last == Min(HostnameEnds(ln, s)) + Len(RgxTail) - 1
         IN  <<SubSeq(ln, s, last)>> \o HostnamesFrom(ln, last + 1)

\* C17: once the pattern has been applied to a line, there are as many
\* matches as the line has non-overlapping occurrences of "r" + one or more
\* digits + separator + content + ".googlevideo.com" (none for a line
\* without one), every match is such an occurrence, and the registry has
\* not been touched.
C17_OneMatchPerHostname ==
    \A t \in TaskIds :
        (pc[t] \in {"InsertLock", "ReadLine"} /\ inserted[t] = <<>> /\ opened[t] = 1
           /\ lineIdx[t] = 0) =>
            /\ Len(matches[t]) = Len(HostnamesFrom(line[t], 1))
            /\ \A k \in 1..Len(matches[t]) :
                  HostnamesFrom(matches[t][k], 1) = <<matches[t][k]>>
            /\ m = EmptyMap

\* main has executed wg.Add(len(filesOfInterest)).
WgIsSet == mainpc \in {"Launch", "Wait"} \/ Aggregated

\* C18: no goroutine runs before wg.Add; from then on the counter is the
\* number of files of interest whose goroutine has not returned (launched
\* or not), never negative; a goroutine whose processFile has its result
\* (open failure, gzip header failure, end of input) is at its deferred
\* wg.Done() or past it; and main is past wg.Wait() only when every
\* goroutine has returned.
C18_WaitGroupAccounting ==
    /\ wg >= 0
    /\ \A t \in TaskIds : pc[t] # "idle" => WgIsSet
    /\ WgIsSet =>
          wg = Len(filesOfInterest)
               - Cardinality({t \in TaskIds : pc[t] = "returned"})
    /\ \A t \in TaskIds :
          /\ ret[t] # "none" => pc[t] \in {"WgDone", "returned"}
          /\ pc[t] \in {"WgDone", "returned"} => ret[t] # "none"
    /\ Aggregated => \A t \in Launched : pc[t] = "returned"

C18_Witness ==
    /\ mainpc = "Wait"
    /\ wg = 1
    /\ \E t, u \in Launched :
          /\ pc[t] = "returned"
          /\ ret[t] = "error"
          /\ opened[t] = 1
          /\ pc[u] = "Switch"
          /\ err[u] = "EOF"

\* Nobody holds the lock for ever and nobody stays for ever at a Lock()
\* call: whoever holds the lock releases it, and whoever waits for it gets
\* it.
LockReleasedAndGranted ==
    []<>(/\ l = Unlocked
         /\ \A t \in TaskIds : pc[t] # "InsertLock"
         /\ mainpc \notin {"DomainsLock1", "DomainsLock2", "ToStringLock"})

\* C19 as stated: every acquisition of the lock is followed by its release,
\* nobody waits for it forever, and the lock is free whenever main is past
\* wg.Wait().
C19_LockFreeWhenAggregated ==
    /\ LockReleasedAndGranted
    /\ [](Aggregated => l = Unlocked)

\* C19 as amended: every acquisition of the lock is followed by its
\* release, nobody waits for it forever, and whenever main is past
\* wg.Wait() no goroutine holds the lock: it is free except while main
\* itself is inside Domains() or DomainsToString().
C19_LockLiveness ==
    /\ LockReleasedAndGranted
    /\ [](Aggregated => (l = Unlocked \/ (l = Main /\ MainInCritical)))

C19_Witness ==
    /\ mainpc = "ToString"
    /\ l = Main
    /\ launched = 2
    /\ \A t \in Launched : inserted[t] # <<>>

====
